---- MODULE Spec2Model ----
(***************************************************************************)
(* Windowed sampling and the sequential training loop of the NIDS          *)
(* framework: the three window samplers of data/samplers.py, the           *)
(* EarlyStopping policy and the Trainer of training/trainer.py.            *)
(*                                                                         *)
(* Python indices are kept 0-based: a record index is a number in          *)
(* 0..N-1, a list of indices is a TLA+ sequence of such numbers.           *)
(* An Optional value is <<>> for None and <<v>> for the value v.           *)
(***************************************************************************)
EXTENDS Integers, Sequences, FiniteSets, TLC

\* ------------------------------------------------------------------ bounds

\* largest store length len(dataset) explored by the sampler specification
MaxN == 4
\* longest anchor list handed to the FixedWindowSampler
MaxAnchors == 2
\* passes (calls of __iter__) explored per sampler
MaxPasses == 2
\* anchors one RandomSlidingWindowSampler draws over all its passes
MaxDraws == 8
\* largest patience handed to EarlyStopping
MaxPatience == 3
\* the relative thresholds delta explored are the fractions d/DeltaDen, d <= MaxDeltaNum
DeltaDen == 2
MaxDeltaNum == 2
\* largest validation loss handed to EarlyStopping directly
MaxLoss == 3
\* calls of EarlyStopping.__call__ explored on one object
MaxCalls == 4
\* largest n_epoch handed to train
MaxEpochs == 3
\* largest number of batches of the training loader
MaxBatches == 2
\* largest number of batches of the validation loader
MaxValid == 1
\* invocations (train, validate, test) explored on one Trainer
MaxInvocations == 2
\* largest number of batches of the test loader
MaxTest == 2
\* largest number of records of the record store
MaxRecords == 3
\* outputs of the shared generator explored after a seed(42)
TapeLen == 4
\* the generator's outputs are the numbers below TapeVals
TapeVals == 2

\* ------------------------------------------------------------- variables

VARIABLES
    kind,               \* class of the constructed sampler, "none" before construction
    dataset_len,        \* len(self.dataset)
    window_size,        \* self.window_size
    num_samples,        \* self.num_samples
    indices,            \* FixedWindowSampler.indices (the supplied anchors)
    labels,             \* the label column handed to FairSlidingWindowSampler
    benign_label,       \* the benign_label argument of FairSlidingWindowSampler
    malicious_indices,  \* FairSlidingWindowSampler._malicious_indices
    legit_indices,      \* FairSlidingWindowSampler._legit_indices
    windows,            \* the list the most recent __iter__ returned an iterator over
    passes,             \* number of completed calls of __iter__
    raised,             \* exception raised by the sampler ("none" if none)
    early_stopping,     \* the EarlyStopping object: None while unbound, else Some(its fields)
    checkpoint,         \* the file checkpoints/checkpoint.pt: None, or Some(saved weights)
    weights,            \* the model's state_dict, as the number of optimizer steps behind it
    es_calls,           \* the calls made on the policy directly: (val_loss, model weights)
    pc,                 \* where the Trainer is: "idle", inside train, "returned" or "raised"
    args,               \* the arguments of the running train call
    mode,               \* the model's mode: "train" or "eval"
    epoch,              \* the loop variable of train: None while unbound, else Some(index)
    step,               \* batches trained so far in the running epoch
    epoch_loss,         \* epoch_loss of train_one_epoch
    train_loss,         \* train_loss of train
    vstep,              \* batches validated so far in the running validation
    validation_loss,    \* validation_loss of validate
    events,             \* the hook events fired so far, in order
    exception,          \* the exception train ended with ("none" if none)
    result,             \* the value train returned: None, or Some(value)
    trained,            \* for every epoch begun, the number of batches trained in it
    epoch_losses_sum,   \* the sum of the losses train_one_epoch returned so far
    validations,        \* for every validation begun: (epochs completed, model weights)
    call,               \* the Trainer method the caller invoked: "none", "train", "validate", "test"
    targs,              \* the arguments of the running test call
    tstep,              \* batches tested so far in the running test
    metric_calls,       \* the calls made on the metric accumulator, in order
    invocations,        \* the invocations made on the Trainer so far
    rng,                \* the generator behind the module random: outputs drawn since seed(42)
    tape,               \* the outputs the generator gives after seed(42), in order
    other,              \* a second sampler that lives in the same process
    store,              \* the record store (TabularDataset): its tensors
    item                \* what the most recent __getitem__ of the store returned

samplerVars == <<kind, dataset_len, window_size, num_samples, indices, labels,
                 benign_label, malicious_indices, legit_indices, windows, passes,
                 raised>>

esVars == <<early_stopping, checkpoint, weights, es_calls>>

trainerVars == <<pc, args, mode, epoch, step, epoch_loss, train_loss, vstep,
                 validation_loss, events, exception, result, trained, epoch_losses_sum,
                 validations>>

testVars == <<call, targs, tstep, metric_calls, invocations>>

rngVars == <<rng, tape, other>>

storeVars == <<store, item>>

nonTrainerVars == <<samplerVars, rngVars, storeVars>>

nonSamplerVars == <<esVars, trainerVars, testVars, rngVars, storeVars>>

nonEsVars == <<samplerVars, trainerVars, testVars, rngVars, storeVars>>

vars == <<samplerVars, esVars, trainerVars, testVars, rngVars, storeVars>>

\* ------------------------------------------------------------ Optional

None == <<>>

Some(v) == <<v>>

\* ------------------------------------------------------------- numbers

\* a Python float, kept exact as the fraction num/den with den > 0
Rat(n, d) == [num |-> n, den |-> d]

RatNeg(a) == [num |-> -a.num, den |-> a.den]

RatAdd(a, b) == [num |-> a.num * b.den + b.num * a.den, den |-> a.den * b.den]

RatSub(a, b) == [num |-> a.num * b.den - b.num * a.den, den |-> a.den * b.den]

RatMul(a, b) == [num |-> a.num * b.num, den |-> a.den * b.den]

\* a / k for an int k > 0
RatDivInt(a, k) == [num |-> a.num, den |-> a.den * k]

RatLess(a, b) == a.num * b.den < b.num * a.den

RatEq(a, b) == a.num * b.den = b.num * a.den

\* ------------------------------------------------------- sampler helpers

Min(a, b) == IF a < b THEN a ELSE b

\* torch.arange(start - window_size + 1, start + 1) and
\* list(range(start - window_size + 1, start + 1)): the window ending at start
Window(start, ws) == [k \in 1..ws |-> start - ws + k]

\* the anchor (last index) of a non-empty window
Anchor(w) == w[Len(w)]

\* labels[mask].index.tolist(): the indices lo..hi, in increasing order, at
\* which the boolean mask holds
RECURSIVE MaskIndices(_, _, _)
MaskIndices(mask, lo, hi) ==
    IF lo > hi THEN <<>>
    ELSE (IF mask[lo] THEN <<lo>> ELSE <<>>) \o MaskIndices(mask, lo + 1, hi)

\* the choices random.shuffle makes on a list of n items: for every position p
\* from the last one down to the second, a position q <= p to swap it with
\* (1-based; randbelow(i + 1) in the code)
ShuffleChoices(n) == {js \in [2..n -> 1..n] : \A p \in 2..n : js[p] <= p}

Swap(x, p, q) == [x EXCEPT ![p] = x[q], ![q] = x[p]]

\* random.shuffle(x): Fisher-Yates from the last position down, with the draws js
RECURSIVE ShuffleFrom(_, _, _)
ShuffleFrom(x, p, js) ==
    IF p < 2 THEN x ELSE ShuffleFrom(Swap(x, p, js[p]), p - 1, js)

Shuffle(x, js) == ShuffleFrom(x, Len(x), js)

\* ------------------------------------------------ RandomSlidingWindowSampler

\* faulty variant: the count of anchors without the + 1
RandomNumSamplesOffByOne(n, ws) == n - ws

\* self.num_samples = len(dataset) - window_size + 1
RandomNumSamples(n, ws) == n - ws + 1

\* RandomSlidingWindowSampler.__init__: no argument is validated
NewRandom(n, ws) ==
    /\ kind = "none"
    /\ kind' = "Random"
    /\ dataset_len' = n
    /\ window_size' = ws
    /\ num_samples' = RandomNumSamples(n, ws)
    /\ UNCHANGED <<indices, labels, benign_label, malicious_indices, legit_indices,
                   windows, passes, raised>>
    /\ UNCHANGED nonSamplerVars

\* the draws of one pass: range(self.num_samples) anchors, each one
\* random.randint(self.window_size - 1, len(self.dataset) - 1); the seeded
\* generator is modelled by every value it can return
RandomDraws(n, ws, count) ==
    IF count <= 0 THEN {<<>>} ELSE [1..count -> (ws - 1)..(n - 1)]

RandomWindows(draws, ws) == [i \in 1..Len(draws) |-> Window(draws[i], ws)]

\* RandomSlidingWindowSampler.__iter__
RandomIter ==
    /\ kind = "Random"
    /\ passes < MaxPasses
    /\ (passes + 1) * num_samples <= MaxDraws
    /\ \E draws \in RandomDraws(dataset_len, window_size, num_samples) :
          windows' = RandomWindows(draws, window_size)
    /\ passes' = passes + 1
    /\ UNCHANGED <<kind, dataset_len, window_size, num_samples, indices, labels,
                   benign_label, malicious_indices, legit_indices, raised>>
    /\ UNCHANGED nonSamplerVars

\* ------------------------------------------------------- FixedWindowSampler

\* FixedWindowSampler.__init__: the anchors are stored as supplied
NewFixed(n, idx, ws) ==
    /\ kind = "none"
    /\ kind' = "Fixed"
    /\ dataset_len' = n
    /\ indices' = idx
    /\ window_size' = ws
    /\ num_samples' = Len(idx)
    /\ UNCHANGED <<labels, benign_label, malicious_indices, legit_indices,
                   windows, passes, raised>>
    /\ UNCHANGED nonSamplerVars

\* faulty variant: every window is anchored at the first of the shuffled anchors
FixedWindowsFirstAnchor(random_indices, ws) ==
    [i \in 1..Len(random_indices) |-> Window(random_indices[1], ws)]

\* the list comprehension of __iter__: one window per shuffled anchor, in order
FixedWindows(random_indices, ws) ==
    [i \in 1..Len(random_indices) |-> Window(random_indices[i], ws)]

\* FixedWindowSampler.__iter__: indices.sample(frac=1) is a shuffled copy,
\* self.indices is left as it is
FixedIter ==
    /\ kind = "Fixed"
    /\ passes < MaxPasses
    /\ \E js \in ShuffleChoices(Len(indices)) :
          windows' = FixedWindows(Shuffle(indices, js), window_size)
    /\ passes' = passes + 1
    /\ UNCHANGED <<kind, dataset_len, window_size, num_samples, indices, labels,
                   benign_label, malicious_indices, legit_indices, raised>>
    /\ UNCHANGED nonSamplerVars

\* ------------------------------------------------- FairSlidingWindowSampler

\* faulty variant: the comparison with >= in place of >
ValidAnchorInclusive(i, ws) == i >= ws - 1

\* the index part of both masks: labels.index > window_size - 1
ValidAnchor(i, ws) == i > ws - 1

\* malicious_mask = (labels != benign_label) & (labels.index > window_size - 1)
MaliciousMask(lbls, n, benign, ws) ==
    [i \in 0..(n - 1) |-> lbls[i] # benign /\ ValidAnchor(i, ws)]

\* legit_mask = (labels == benign_label) & (labels.index > window_size - 1)
LegitMask(lbls, n, benign, ws) ==
    [i \in 0..(n - 1) |-> lbls[i] = benign /\ ValidAnchor(i, ws)]

\* labels[malicious_mask].index.tolist()
MaliciousIndices(lbls, n, benign, ws) ==
    MaskIndices(MaliciousMask(lbls, n, benign, ws), 0, n - 1)

\* labels[legit_mask].index.tolist()
LegitIndices(lbls, n, benign, ws) ==
    MaskIndices(LegitMask(lbls, n, benign, ws), 0, n - 1)

\* FairSlidingWindowSampler.__init__
NewFair(n, lbls, benign, ws) ==
    /\ kind = "none"
    /\ IF ws % 2 # 0
       THEN /\ raised' = "ValueError"
            /\ kind' = "Failed"
            /\ UNCHANGED <<dataset_len, window_size, num_samples, labels,
                           benign_label, malicious_indices, legit_indices>>
       ELSE /\ kind' = "Fair"
            /\ dataset_len' = n
            /\ window_size' = ws
            /\ labels' = lbls
            /\ benign_label' = benign
            /\ malicious_indices' = MaliciousIndices(lbls, n, benign, ws)
            /\ legit_indices' = LegitIndices(lbls, n, benign, ws)
            /\ num_samples' = 2 * Min(Len(MaliciousIndices(lbls, n, benign, ws)),
                                      Len(LegitIndices(lbls, n, benign, ws)))
            /\ UNCHANGED raised
    /\ UNCHANGED <<indices, windows, passes>>
    /\ UNCHANGED nonSamplerVars

\* faulty variant: the two appends of the loop body in the other order
FairWindowsLegitFirst(mal, leg, ws) ==
    [i \in 1..(2 * Min(Len(mal), Len(leg))) |->
        IF i % 2 = 1 THEN Window(leg[(i + 1) \div 2], ws)
                     ELSE Window(mal[i \div 2], ws)]

\* the loop over zip(self._malicious_indices, self._legit_indices): one
\* malicious-anchored window, then one legit-anchored window, per pair
FairWindows(mal, leg, ws) ==
    [i \in 1..(2 * Min(Len(mal), Len(leg))) |->
        IF i % 2 = 1 THEN Window(mal[(i + 1) \div 2], ws)
                     ELSE Window(leg[i \div 2], ws)]

\* FairSlidingWindowSampler.__iter__: both lists are shuffled in place
FairIter ==
    /\ kind = "Fair"
    /\ passes < MaxPasses
    /\ \E jm \in ShuffleChoices(Len(malicious_indices)),
          jl \in ShuffleChoices(Len(legit_indices)) :
          /\ malicious_indices' = Shuffle(malicious_indices, jm)
          /\ legit_indices' = Shuffle(legit_indices, jl)
          /\ windows' = FairWindows(Shuffle(malicious_indices, jm),
                                    Shuffle(legit_indices, jl), window_size)
    /\ passes' = passes + 1
    /\ UNCHANGED <<kind, dataset_len, window_size, num_samples, indices, labels,
                   benign_label, raised>>
    /\ UNCHANGED nonSamplerVars

\* ------------------------------------------------------------ EarlyStopping

\* the fields of the object while it exists
ES == early_stopping[1]

\* EarlyStopping.__init__; best_score is None, val_loss_min is np.Inf (None here)
EarlyStoppingInit(patience, delta) ==
    [patience |-> patience, delta |-> delta, counter |-> 0, best_score |-> None,
     early_stop |-> FALSE, val_loss_min |-> None]

\* faulty variant: the loss taken as the score without the sign change
ScoreNotNegated(val_loss) == val_loss

\* score = -val_loss
Score(val_loss) == RatNeg(val_loss)

\* the elif test: score < self.best_score - self.best_score * self.delta
NotImproved(e, score) ==
    RatLess(score, RatSub(e.best_score[1], RatMul(e.best_score[1], e.delta)))

\* faulty variant: the patience test with > in place of >=
PatienceExhaustedLate(counter, patience) == counter > patience

\* if self.counter >= self.patience
PatienceExhausted(counter, patience) == counter >= patience

\* the fields after EarlyStopping.__call__(val_loss, model)
EarlyStoppingAfterCall(e, val_loss) ==
    IF e.best_score = None
    THEN [e EXCEPT !.best_score = Some(Score(val_loss)),
                   !.val_loss_min = Some(val_loss)]
    ELSE IF NotImproved(e, Score(val_loss))
         THEN [e EXCEPT !.counter = e.counter + 1,
                        !.early_stop = IF PatienceExhausted(e.counter + 1, e.patience)
                                       THEN TRUE ELSE e.early_stop]
         ELSE [e EXCEPT !.best_score = Some(Score(val_loss)),
                        !.val_loss_min = Some(val_loss),
                        !.counter = 0]

\* faulty variant: every call saves a checkpoint
SavesCheckpointAlways(e, val_loss) == TRUE

\* whether __call__ reaches self.save_checkpoint(val_loss, model)
SavesCheckpoint(e, val_loss) ==
    \/ e.best_score = None
    \/ ~NotImproved(e, Score(val_loss))

\* the checkpoint file after __call__ on a model with the weights w:
\* save_checkpoint overwrites it with model.state_dict()
CheckpointAfterCall(e, val_loss, w, file) ==
    IF SavesCheckpoint(e, val_loss) THEN Some(w) ELSE file

\* ------------------------------------------------------------------ Trainer

\* faulty variant: an event with no callback registered is not fired
ExecuteHooksOnlyRegistered(trace, event) == trace

\* HookSystem.execute_hooks(event): every callback registered for the event
\* runs; the trace keeps the event
ExecuteHooks(trace, event) == Append(trace, event)

\* Python truthiness of an Optional[int]: None and 0 are false
TruthyInt(o) == o # None /\ o[1] # 0

\* Python truthiness of an Optional[DataLoader], a loader being given by its
\* number of batches: None is false, and so is a loader of len() 0
TruthyLoader(o) == o # None /\ o[1] # 0

\* the batches train_one_epoch runs: epoch_steps if given, else the whole loader
StepsOfEpoch(a) == IF a.epoch_steps = None THEN a.train_len ELSE a.epoch_steps[1]

\* faulty variant: the test with >= in place of >
TooManyStepsInclusive(a) == a.epoch_steps # None /\ a.epoch_steps[1] >= a.train_len

\* if epoch_steps > len(data_loader)
TooManySteps(a) == a.epoch_steps # None /\ a.epoch_steps[1] > a.train_len

\* faulty variant: the schedule without the test for the final epoch
ValidationDueNoFinal(a, e) ==
    /\ TruthyLoader(a.valid_len)
    /\ TruthyInt(a.epochs_until_validation)
    /\ (e + 1) % a.epochs_until_validation[1] = 0

\* if valid_data_loader and epochs_until_validation:
\*     if (epoch + 1) % epochs_until_validation == 0 or epoch + 1 == n_epoch
ValidationDue(a, e) ==
    /\ TruthyLoader(a.valid_len)
    /\ TruthyInt(a.epochs_until_validation)
    /\ \/ (e + 1) % a.epochs_until_validation[1] = 0
       \/ e + 1 = a.n_epoch

\* if patience is not None and delta is not None: early_stopping = EarlyStopping(...)
EarlyStoppingOfTrain(a) ==
    IF a.patience # None /\ a.delta # None
    THEN Some(EarlyStoppingInit(a.patience[1], a.delta[1]))
    ELSE None

\* the arguments of train while no call of it runs
NoArgs ==
    [n_epoch |-> 0, train_len |-> 0, epoch_steps |-> None,
     epochs_until_validation |-> None, valid_len |-> None, patience |-> None,
     delta |-> None]

\* the arguments of test while no call of it runs
NoTestArgs == [test_len |-> 0, metric |-> FALSE]

\* Trainer.train up to the loop: BEFORE_TRAIN, the policy, train_loss, model.train()
Train(a) ==
    /\ pc = "idle"
    /\ args' = a
    /\ events' = ExecuteHooks(events, "before_train")
    /\ early_stopping' = EarlyStoppingOfTrain(a)
    /\ train_loss' = Rat(0, 1)
    /\ mode' = "train"
    /\ pc' = "for_epoch"
    /\ call' = "train"
    /\ UNCHANGED <<checkpoint, weights, es_calls, epoch, step, epoch_loss, vstep,
                   validation_loss, exception, result, trained, epoch_losses_sum,
                   validations>>
    /\ UNCHANGED <<targs, tstep, metric_calls, invocations, nonTrainerVars>>

\* the index the for loop of train binds next
NextEpoch == IF epoch = None THEN 0 ELSE epoch[1] + 1

\* for epoch in range(n_epoch): the next iteration enters train_one_epoch
\* (BEFORE_EPOCH, epoch_loss = 0.0, the epoch_steps test); the exhausted
\* loop falls through to the end of train
ForEpoch ==
    /\ pc = "for_epoch"
    /\ IF NextEpoch < args.n_epoch
       THEN /\ epoch' = Some(NextEpoch)
            /\ events' = ExecuteHooks(events, "before_epoch")
            /\ epoch_loss' = Rat(0, 1)
            /\ step' = 0
            /\ trained' = Append(trained, 0)
            /\ IF TooManySteps(args)
               THEN pc' = "raised" /\ exception' = "ValueError"
               ELSE pc' = "batches" /\ UNCHANGED exception
       ELSE /\ pc' = "after_loop"
            /\ UNCHANGED <<epoch, events, epoch_loss, step, trained, exception>>
    /\ UNCHANGED <<args, mode, train_loss, vstep, validation_loss, result,
                   epoch_losses_sum, validations>>
    /\ UNCHANGED <<esVars, testVars, nonTrainerVars>>

\* the losses a training batch can give
TrainLosses == {Rat(1, 1), Rat(2, 1)}

\* the losses a validation batch can give
ValidLosses == {Rat(1, 1), Rat(2, 1), Rat(3, 1)}

\* Trainer._train_one_batch, and the accumulation of its loss
TrainOneBatch ==
    /\ pc = "batches"
    /\ step < StepsOfEpoch(args)
    /\ events' = ExecuteHooks(ExecuteHooks(events, "before_batch"), "after_batch")
    /\ weights' = weights + 1
    /\ \E loss \in TrainLosses : epoch_loss' = RatAdd(epoch_loss, loss)
    /\ step' = step + 1
    /\ trained' = [trained EXCEPT ![Len(trained)] = trained[Len(trained)] + 1]
    /\ UNCHANGED <<early_stopping, checkpoint, es_calls, pc, args, mode, epoch,
                   train_loss, vstep, validation_loss, exception, result,
                   epoch_losses_sum, validations>>
    /\ UNCHANGED <<testVars, nonTrainerVars>>

\* the end of train_one_epoch (the division, AFTER_EPOCH) and, back in train,
\* train_loss += epoch_loss and the test whether to validate
EndEpoch ==
    /\ pc = "batches"
    /\ step = StepsOfEpoch(args)
    /\ IF StepsOfEpoch(args) = 0
       THEN /\ pc' = "raised"
            /\ exception' = "ZeroDivisionError"
            /\ UNCHANGED <<epoch_loss, events, train_loss, epoch_losses_sum>>
       ELSE /\ epoch_loss' = RatDivInt(epoch_loss, StepsOfEpoch(args))
            /\ events' = ExecuteHooks(events, "after_epoch")
            /\ train_loss' = RatAdd(train_loss, RatDivInt(epoch_loss, StepsOfEpoch(args)))
            /\ epoch_losses_sum' = RatAdd(epoch_losses_sum,
                                          RatDivInt(epoch_loss, StepsOfEpoch(args)))
            /\ pc' = IF ValidationDue(args, epoch[1]) THEN "validate" ELSE "for_epoch"
            /\ UNCHANGED exception
    /\ UNCHANGED <<args, mode, epoch, step, vstep, validation_loss, result, trained,
                   validations>>
    /\ UNCHANGED <<esVars, testVars, nonTrainerVars>>

\* Trainer.validate up to its loop: BEFORE_VALIDATION, validation_loss = 0.0,
\* model.eval()
Validate ==
    /\ pc = "validate"
    /\ events' = ExecuteHooks(events, "before_validation")
    /\ validation_loss' = Rat(0, 1)
    /\ mode' = "eval"
    /\ vstep' = 0
    /\ validations' = Append(validations, [epoch |-> epoch[1] + 1, weights |-> weights])
    /\ pc' = "validating"
    /\ UNCHANGED <<args, epoch, step, epoch_loss, train_loss, exception, result,
                   trained, epoch_losses_sum>>
    /\ UNCHANGED <<esVars, testVars, nonTrainerVars>>

\* Trainer._validate_one_batch, and the accumulation of its loss
ValidateOneBatch ==
    /\ pc = "validating"
    /\ vstep < args.valid_len[1]
    /\ \E loss \in ValidLosses : validation_loss' = RatAdd(validation_loss, loss)
    /\ vstep' = vstep + 1
    /\ UNCHANGED <<pc, args, mode, epoch, step, epoch_loss, train_loss, events,
                   exception, result, trained, epoch_losses_sum, validations>>
    /\ UNCHANGED <<esVars, testVars, nonTrainerVars>>

\* the end of Trainer.validate: the division by len(data_loader),
\* AFTER_VALIDATION, and the return, into train or to the caller of validate
EndValidate ==
    /\ pc = "validating"
    /\ vstep = args.valid_len[1]
    /\ IF args.valid_len[1] = 0
       THEN /\ pc' = "raised"
            /\ exception' = "ZeroDivisionError"
            /\ UNCHANGED <<validation_loss, events, result>>
       ELSE /\ validation_loss' = RatDivInt(validation_loss, args.valid_len[1])
            /\ events' = ExecuteHooks(events, "after_validation")
            /\ IF call = "train"
               THEN pc' = "validated" /\ UNCHANGED result
               ELSE /\ pc' = "returned"
                    /\ result' = Some(RatDivInt(validation_loss, args.valid_len[1]))
            /\ UNCHANGED exception
    /\ UNCHANGED <<args, mode, epoch, step, epoch_loss, train_loss, vstep,
                   trained, epoch_losses_sum, validations>>
    /\ UNCHANGED <<esVars, testVars, nonTrainerVars>>

\* faulty variant: the break without reloading the checkpoint
WeightsAfterStopNoReload(w, file) == w

\* self._model.load_state_dict(torch.load("checkpoints/checkpoint.pt"))
WeightsAfterStop(w, file) == file[1]

\* faulty variant: no switch back after a validation
ResumeModeOmitted == mode

\* self._model.train() after a validation that did not signal stop
ResumeMode == "train"

\* back in train after validate: early_stopping(validation_loss, self._model),
\* then either the reload and the break, or self._model.train(); the name
\* early_stopping is unbound when patience or delta was omitted
AfterValidate ==
    /\ pc = "validated"
    /\ IF early_stopping = None
       THEN /\ pc' = "raised"
            /\ exception' = "UnboundLocalError"
            /\ UNCHANGED <<early_stopping, checkpoint, weights, mode>>
       ELSE /\ early_stopping' = Some(EarlyStoppingAfterCall(ES, validation_loss))
            /\ checkpoint' = CheckpointAfterCall(ES, validation_loss, weights, checkpoint)
            /\ IF EarlyStoppingAfterCall(ES, validation_loss).early_stop
               THEN /\ weights' = WeightsAfterStop(weights,
                                      CheckpointAfterCall(ES, validation_loss, weights,
                                                          checkpoint))
                    /\ pc' = "after_loop"
                    /\ UNCHANGED mode
               ELSE /\ mode' = ResumeMode
                    /\ pc' = "for_epoch"
                    /\ UNCHANGED weights
            /\ UNCHANGED exception
    /\ UNCHANGED <<es_calls, args, epoch, step, epoch_loss, train_loss, vstep,
                   validation_loss, events, result, trained, epoch_losses_sum,
                   validations>>
    /\ UNCHANGED <<testVars, nonTrainerVars>>

\* train_loss /= epoch + 1
MeanLoss(total, e, n_epoch) == RatDivInt(total, e + 1)

\* the end of train: the mean, AFTER_TRAIN, the return; the name epoch is
\* unbound when the loop ran no iteration
EndTrain ==
    /\ pc = "after_loop"
    /\ IF epoch = None
       THEN /\ pc' = "raised"
            /\ exception' = "UnboundLocalError"
            /\ UNCHANGED <<train_loss, events, result>>
       ELSE /\ train_loss' = MeanLoss(train_loss, epoch[1], args.n_epoch)
            /\ events' = ExecuteHooks(events, "after_train")
            /\ result' = Some(MeanLoss(train_loss, epoch[1], args.n_epoch))
            /\ pc' = "returned"
            /\ UNCHANGED exception
    /\ UNCHANGED <<args, mode, epoch, step, epoch_loss, vstep, validation_loss,
                   trained, epoch_losses_sum, validations>>
    /\ UNCHANGED <<esVars, testVars, nonTrainerVars>>

\* Trainer.validate called by the user of the Trainer, up to its loop
ValidateCall(len) ==
    /\ pc = "idle"
    /\ call' = "validate"
    /\ args' = [NoArgs EXCEPT !.valid_len = Some(len)]
    /\ events' = ExecuteHooks(events, "before_validation")
    /\ validation_loss' = Rat(0, 1)
    /\ mode' = "eval"
    /\ vstep' = 0
    /\ pc' = "validating"
    /\ UNCHANGED <<epoch, step, epoch_loss, train_loss, exception, result, trained,
                   epoch_losses_sum, validations>>
    /\ UNCHANGED <<targs, tstep, metric_calls, invocations>>
    /\ UNCHANGED <<esVars, nonTrainerVars>>

\* a call of the metric accumulator, with the number of hook events fired before it
MetricCall(op, batch) == [op |-> op, batch |-> batch, at |-> Len(events)]

\* faulty variant: the metric is not looked at
MetricMissingIgnored(metric) == FALSE

\* if metric is None
MetricMissing(metric) == ~metric

\* Trainer.test up to its loop: the metric test, BEFORE_TEST, model.eval();
\* the loader is given by its number of batches, the metric by whether it is one
Test(len, metric) ==
    /\ pc = "idle"
    /\ call' = "test"
    /\ targs' = [test_len |-> len, metric |-> metric]
    /\ tstep' = 0
    /\ IF MetricMissing(metric)
       THEN /\ pc' = "raised"
            /\ exception' = "ValueError"
            /\ UNCHANGED <<events, mode>>
       ELSE /\ events' = ExecuteHooks(events, "before_test")
            /\ mode' = "eval"
            /\ pc' = "testing"
            /\ UNCHANGED exception
    /\ UNCHANGED <<args, epoch, step, epoch_loss, train_loss, vstep, validation_loss,
                   result, trained, epoch_losses_sum, validations>>
    /\ UNCHANGED <<metric_calls, invocations>>
    /\ UNCHANGED <<esVars, nonTrainerVars>>

\* one iteration of the loop of test: _test_one_batch, then metric.step
TestOneBatch ==
    /\ pc = "testing"
    /\ tstep < targs.test_len
    /\ metric_calls' = Append(metric_calls, MetricCall("step", tstep))
    /\ tstep' = tstep + 1
    /\ UNCHANGED <<call, targs, invocations>>
    /\ UNCHANGED <<esVars, trainerVars, nonTrainerVars>>

\* the end of test: metric.apply(), AFTER_TEST, the return of None
EndTest ==
    /\ pc = "testing"
    /\ tstep = targs.test_len
    /\ metric_calls' = Append(metric_calls, MetricCall("apply", tstep))
    /\ events' = ExecuteHooks(events, "after_test")
    /\ pc' = "returned"
    /\ UNCHANGED <<args, mode, epoch, step, epoch_loss, train_loss, vstep,
                   validation_loss, exception, result, trained, epoch_losses_sum,
                   validations>>
    /\ UNCHANGED <<call, targs, tstep, invocations>>
    /\ UNCHANGED <<esVars, nonTrainerVars>>

\* the invocation is over, by return or by exception: its locals (epoch,
\* early_stopping, the losses) are gone, the model and the checkpoint file stay
Return ==
    /\ pc \in {"returned", "raised"}
    /\ pc' = "idle"
    /\ call' = "none"
    /\ invocations' = invocations + 1
    /\ args' = NoArgs
    /\ targs' = NoTestArgs
    /\ epoch' = None
    /\ early_stopping' = None
    /\ step' = 0
    /\ vstep' = 0
    /\ tstep' = 0
    /\ epoch_loss' = Rat(0, 1)
    /\ train_loss' = Rat(0, 1)
    /\ validation_loss' = Rat(0, 1)
    /\ epoch_losses_sum' = Rat(0, 1)
    /\ events' = <<>>
    /\ metric_calls' = <<>>
    /\ trained' = <<>>
    /\ validations' = <<>>
    /\ exception' = "none"
    /\ result' = None
    /\ UNCHANGED <<mode, weights, checkpoint, es_calls>>
    /\ UNCHANGED nonTrainerVars

\* --------------------------------------------------- the module random

\* The samplers draw from the one generator of the module random. Its state
\* is kept as rng, the number of outputs drawn since the last random.seed(42);
\* tape is the fixed stream of outputs that follows a seed(42). Every call of
\* randint or randbelow takes the next output of the stream.

\* random.seed(42): the stream starts over
Seeded == 0

\* random.randint(lo, hi) on the generator output out
Randint(out, lo, hi) == lo + (out % (hi - lo + 1))

\* the list comprehension of RandomSlidingWindowSampler.__iter__ on the shared
\* generator: count anchors from the outputs that follow position pos
SeededDraws(pos, n, ws, count) ==
    IF count <= 0 THEN <<>>
    ELSE [i \in 1..count |-> Randint(tape[pos + i - 1], ws - 1, n - 1)]

\* RandomSlidingWindowSampler.__init__, with its random.seed(42)
NewRandomShared(n, ws) ==
    /\ kind = "none"
    /\ kind' = "Random"
    /\ dataset_len' = n
    /\ window_size' = ws
    /\ num_samples' = RandomNumSamples(n, ws)
    /\ rng' = Seeded
    /\ UNCHANGED <<indices, labels, benign_label, malicious_indices, legit_indices,
                   windows, passes, raised>>
    /\ UNCHANGED <<tape, other>>
    /\ UNCHANGED <<esVars, trainerVars, testVars, storeVars>>

\* RandomSlidingWindowSampler.__iter__ on the shared generator
RandomIterShared ==
    /\ kind = "Random"
    /\ passes < MaxPasses
    /\ num_samples > 0
    /\ rng + num_samples <= TapeLen
    /\ (passes + 1) * num_samples <= TapeLen
    /\ windows' = RandomWindows(SeededDraws(rng, dataset_len, window_size, num_samples),
                                window_size)
    /\ rng' = rng + num_samples
    /\ passes' = passes + 1
    /\ UNCHANGED <<kind, dataset_len, window_size, num_samples, indices, labels,
                   benign_label, malicious_indices, legit_indices, raised>>
    /\ UNCHANGED <<tape, other>>
    /\ UNCHANGED <<esVars, trainerVars, testVars, storeVars>>

\* the outputs random.shuffle takes for a list of len items: one randbelow
\* per position from the last down to the second
ShuffleDraws(len) == IF len > 1 THEN len - 1 ELSE 0

\* a second RandomSlidingWindowSampler is constructed: random.seed(42)
NewOtherRandom(n, ws) ==
    /\ other' = [kind |-> "Random", draws |-> RandomNumSamples(n, ws),
                 interfered |-> other.interfered \/ kind = "Random"]
    /\ rng' = Seeded
    /\ UNCHANGED tape
    /\ UNCHANGED <<samplerVars, esVars, trainerVars, testVars, storeVars>>

\* a second sampler, a FairSlidingWindowSampler, is constructed: the test of
\* window_size, then random.seed(42)
NewOtherFair(n, lbls, benign, ws) ==
    /\ IF ws % 2 # 0
       THEN UNCHANGED <<other, rng>>
       ELSE /\ other' = [kind |-> "Fair",
                         draws |-> ShuffleDraws(Len(MaliciousIndices(lbls, n, benign, ws)))
                                   + ShuffleDraws(Len(LegitIndices(lbls, n, benign, ws))),
                         interfered |-> other.interfered \/ kind = "Random"]
            /\ rng' = Seeded
    /\ UNCHANGED tape
    /\ UNCHANGED <<samplerVars, esVars, trainerVars, testVars, storeVars>>

\* a pass of the second sampler: its randint or shuffle calls move the
\* shared generator on
OtherIter ==
    /\ other.kind # "none"
    /\ other.draws > 0
    /\ rng + other.draws <= TapeLen
    /\ rng' = rng + other.draws
    /\ other' = [other EXCEPT !.interfered = other.interfered \/ kind = "Random"]
    /\ UNCHANGED tape
    /\ UNCHANGED <<samplerVars, esVars, trainerVars, testVars, storeVars>>

\* ------------------------------------------------------------ TabularDataset

\* A tensor of the store is a list of rows, record 0 first. The labels tensor
\* torch.tensor(labels.values) has one axis when labels is a pd.Series and two
\* axes, (N, 1), when labels is a pd.DataFrame of one column; label_dims is
\* the number of its axes, and a row holds the one label of the record.

\* TabularBase.__init__ and TabularDataset.__init__: the tables become tensors
NewStore(numeric, categorical, lbls, dims) ==
    /\ store.len = 0
    /\ store' = [len |-> Len(lbls), label_dims |-> dims, labels |-> lbls,
                 numeric_data |-> numeric, categorical_data |-> categorical]
    /\ UNCHANGED item
    /\ UNCHANGED <<samplerVars, esVars, trainerVars, testVars, rngVars>>

\* the row a tensor of n rows gives for the Python index i: a negative index
\* counts from the end
RowIndex(i, n) == IF i < 0 THEN i + n ELSE i

\* whether indexing a tensor of n rows with the list idx raises IndexError
OutOfRange(idx, n) == \E k \in 1..Len(idx) : idx[k] < -n \/ idx[k] >= n

\* tensor[idx, :] and tensor[idx]: the rows named by idx, in the order of idx
Rows(tensor, idx) == [k \in 1..Len(idx) |-> tensor[RowIndex(idx[k], Len(tensor)) + 1]]

\* torch.cat((numeric, categorical), dim=-1): row by row, the columns joined
CatLastAxis(a, b) == [k \in 1..Len(a) |-> a[k] \o b[k]]

\* data[..., -1]: the last entry along the last axis. On the one axis of a
\* Series' labels that is the last row; on two axes it is the last column
\* of every row
LastOfLastAxis(rows, dims) ==
    IF dims = 1 THEN <<rows[Len(rows)][1]>>
    ELSE [k \in 1..Len(rows) |-> rows[k][Len(rows[k])]]

\* TabularDataset.__getitem__(idx) with no transformation set (the three
\* transformation lists are empty after construction)
GetItem(idx) ==
    /\ store.len > 0
    /\ IF OutOfRange(idx, store.len)
       THEN item' = [idx |-> idx, error |-> "IndexError", features |-> <<>>,
                     label |-> <<>>]
       ELSE item' = [idx |-> idx, error |-> "none",
                     features |-> CatLastAxis(Rows(store.numeric_data, idx),
                                              Rows(store.categorical_data, idx)),
                     label |-> LastOfLastAxis(Rows(store.labels, idx), store.label_dims)]
    /\ UNCHANGED store
    /\ UNCHANGED <<samplerVars, esVars, trainerVars, testVars, rngVars>>

\* --------------------------------------------------- sampler specification

\* the window sizes tried: from 1 up to one more than the longest store
WindowSizes == 1..(MaxN + 1)

\* anchor lists of record indices of a store of n records
AnchorLists(n) == UNION {[1..len -> 0..(n - 1)] : len \in 0..MaxAnchors}

\* label columns of length n (0 and 1 are the two label values)
LabelColumns(n) == [0..(n - 1) -> {0, 1}]

InitSampler ==
    /\ kind = "none"
    /\ dataset_len = 0
    /\ window_size = 0
    /\ num_samples = 0
    /\ indices = <<>>
    /\ labels = <<>>
    /\ benign_label = 0
    /\ malicious_indices = <<>>
    /\ legit_indices = <<>>
    /\ windows = <<>>
    /\ passes = 0
    /\ raised = "none"

InitEarlyStopping ==
    /\ early_stopping = None
    /\ checkpoint = None
    /\ weights = 0
    /\ es_calls = <<>>

InitTrainer ==
    /\ pc = "idle"
    /\ args = NoArgs
    /\ mode = "train"
    /\ epoch = None
    /\ step = 0
    /\ epoch_loss = Rat(0, 1)
    /\ train_loss = Rat(0, 1)
    /\ vstep = 0
    /\ validation_loss = Rat(0, 1)
    /\ events = <<>>
    /\ exception = "none"
    /\ result = None
    /\ trained = <<>>
    /\ epoch_losses_sum = Rat(0, 1)
    /\ validations = <<>>

InitTest ==
    /\ call = "none"
    /\ targs = NoTestArgs
    /\ tstep = 0
    /\ metric_calls = <<>>
    /\ invocations = 0

NoSampler == [kind |-> "none", draws |-> 0, interfered |-> FALSE]

\* the module random before any sampler exists; the output stream is not
\* looked at by the specifications that draw the anchors freely
InitRandom ==
    /\ rng = 0
    /\ tape = <<>>
    /\ other = NoSampler

NoStore == [len |-> 0, label_dims |-> 1, labels |-> <<>>, numeric_data |-> <<>>,
            categorical_data |-> <<>>]

NoItem == [idx |-> <<>>, error |-> "none", features |-> <<>>, label |-> <<>>]

InitStore ==
    /\ store = NoStore
    /\ item = NoItem

Init == InitSampler /\ InitEarlyStopping /\ InitTrainer /\ InitTest /\ InitRandom /\ InitStore

ConstructRandom ==
    /\ kind = "none"
    /\ \E n \in 1..MaxN, ws \in WindowSizes : NewRandom(n, ws)

ConstructFixed ==
    /\ kind = "none"
    /\ \E n \in 1..MaxN, ws \in WindowSizes :
          \E idx \in AnchorLists(n) : NewFixed(n, idx, ws)

ConstructFair ==
    /\ kind = "none"
    /\ \E n \in 1..MaxN, ws \in WindowSizes, benign \in {0, 1} :
          \E lbls \in LabelColumns(n) : NewFair(n, lbls, benign, ws)

\* the end-to-end scenario: a store of 10 records and window_size = 4
ConstructScenarioRandom == NewRandom(10, 4)

\* the label columns of the scenario: 10 records, exactly 4 of them malicious
\* (label 1), all at indices >= 3, the other 6 benign (label 0)
ScenarioLabels ==
    {lbls \in [0..9 -> {0, 1}] :
        /\ Cardinality({i \in 0..9 : lbls[i] = 1}) = 4
        /\ \A i \in 0..9 : lbls[i] = 1 => i >= 3}

ConstructScenarioFair ==
    /\ kind = "none"
    /\ \E lbls \in ScenarioLabels : NewFair(10, lbls, 0, 4)

SamplerNext ==
    \/ ConstructRandom
    \/ ConstructFixed
    \/ ConstructFair
    \/ ConstructScenarioFair
    \/ RandomIter
    \/ FixedIter
    \/ FairIter

SamplerSpec == Init /\ [][SamplerNext]_vars

\* the Random sampler alone, over the small stores and the store of the scenario
RandomNext ==
    \/ ConstructRandom
    \/ ConstructScenarioRandom
    \/ RandomIter

RandomSpec == Init /\ [][RandomNext]_vars

\* ------------------------------------------- shared generator specification

\* the output streams explored
Tapes == [0..(TapeLen - 1) -> 0..(TapeVals - 1)]

SharedRandomInit ==
    /\ InitSampler /\ InitEarlyStopping /\ InitTrainer /\ InitTest /\ InitStore
    /\ rng = Seeded
    /\ tape \in Tapes
    /\ other = NoSampler

ConstructRandomShared ==
    /\ kind = "none"
    /\ \E n \in 1..MaxN, ws \in 1..MaxN : NewRandomShared(n, ws)

ConstructOtherRandom ==
    /\ other.kind = "none"
    /\ \E n \in 1..MaxN, ws \in 1..MaxN : NewOtherRandom(n, ws)

ConstructOtherFair ==
    /\ other.kind = "none"
    /\ \E n \in 1..MaxN, ws \in 1..MaxN :
          \E lbls \in LabelColumns(n) : NewOtherFair(n, lbls, 0, ws)

SharedRandomNext ==
    \/ ConstructRandomShared
    \/ RandomIterShared
    \/ ConstructOtherRandom
    \/ ConstructOtherFair
    \/ OtherIter

SharedRandomSpec == SharedRandomInit /\ [][SharedRandomNext]_vars

\* ---------------------------------------------------- store specification

\* a column of n rows of one entry each, the entries taken from vals
Column(n, vals) == [1..n -> {<<v>> : v \in vals}]

\* the categorical codes of the stores explored: record i has the code i
CodeColumn(n) == [k \in 1..n |-> <<k - 1>>]

ConstructStore ==
    /\ store.len = 0
    /\ \E n \in 1..MaxRecords, dims \in {1, 2} :
          \E numeric \in Column(n, {0, 1}), lbls \in Column(n, {0, 1}) :
             NewStore(numeric, CodeColumn(n), lbls, dims)

\* the store is asked for a window as the samplers build them: the window_size
\* consecutive indices ending at an anchor
GetWindow ==
    /\ store.len > 0
    /\ \E anchor \in 0..(store.len - 1), ws \in 1..MaxRecords :
          GetItem(Window(anchor, ws))

StoreNext ==
    \/ ConstructStore
    \/ GetWindow

StoreSpec == Init /\ [][StoreNext]_vars

\* --------------------------------------------- EarlyStopping specification

\* the relative thresholds tried: 0, 1/DeltaDen, ..., MaxDeltaNum/DeltaDen
Deltas == {Rat(d, DeltaDen) : d \in 0..MaxDeltaNum}

\* the validation losses tried: 0, 1, ..., MaxLoss
ValLosses == {Rat(l, 1) : l \in 0..MaxLoss}

\* early_stopping = EarlyStopping(patience, delta)
ConstructEarlyStopping ==
    /\ early_stopping = None
    /\ \E patience \in 0..MaxPatience, delta \in Deltas :
          early_stopping' = Some(EarlyStoppingInit(patience, delta))
    /\ UNCHANGED <<checkpoint, weights, es_calls>>
    /\ UNCHANGED nonEsVars

\* early_stopping(val_loss, model), on a model that took one more optimizer
\* step since the call before
EarlyStoppingCall ==
    /\ early_stopping # None
    /\ Len(es_calls) < MaxCalls
    /\ \E val_loss \in ValLosses :
          /\ early_stopping' = Some(EarlyStoppingAfterCall(ES, val_loss))
          /\ checkpoint' = CheckpointAfterCall(ES, val_loss, weights + 1, checkpoint)
          /\ es_calls' = Append(es_calls, [val_loss |-> val_loss, weights |-> weights + 1])
    /\ weights' = weights + 1
    /\ UNCHANGED nonEsVars

EarlyStoppingNext ==
    \/ ConstructEarlyStopping
    \/ EarlyStoppingCall

EarlyStoppingSpec == Init /\ [][EarlyStoppingNext]_vars

\* --------------------------------------------------- Trainer specification

\* an Optional[int] with the values lo..hi
OptionalInt(lo, hi) == {None} \cup {Some(v) : v \in lo..hi}

\* the argument tuples of train explored
TrainArgs ==
    [n_epoch : 0..MaxEpochs,
     train_len : 0..MaxBatches,
     epoch_steps : OptionalInt(0, MaxBatches + 1),
     epochs_until_validation : OptionalInt(0, MaxEpochs),
     valid_len : OptionalInt(0, MaxValid),
     patience : OptionalInt(1, MaxEpochs - 1),
     delta : {None, Some(Rat(0, 1)), Some(Rat(1, DeltaDen))}]

CallTrain ==
    /\ pc = "idle"
    /\ \E a \in TrainArgs : Train(a)

TrainerNext ==
    \/ CallTrain
    \/ ForEpoch
    \/ TrainOneBatch
    \/ EndEpoch
    \/ Validate
    \/ ValidateOneBatch
    \/ EndValidate
    \/ AfterValidate
    \/ EndTrain

TrainerSpec == Init /\ [][TrainerNext]_vars

\* ------------------------------------- invocations on one Trainer, in sequence

\* the argument tuples of train explored when invocations follow one another
SequenceTrainArgs ==
    [n_epoch : 1..2,
     train_len : {1},
     epoch_steps : {None},
     epochs_until_validation : {None, Some(1), Some(2)},
     valid_len : {None, Some(1)},
     patience : {None, Some(1)},
     delta : {None, Some(Rat(0, 1))}]

InvokeTrain ==
    /\ pc = "idle"
    /\ invocations < MaxInvocations
    /\ \E a \in SequenceTrainArgs : Train(a)

InvokeValidate ==
    /\ pc = "idle"
    /\ invocations < MaxInvocations
    /\ \E len \in 0..MaxValid : ValidateCall(len)

InvokeTest ==
    /\ pc = "idle"
    /\ invocations < MaxInvocations
    /\ \E len \in 0..MaxTest, metric \in BOOLEAN : Test(len, metric)

InvocationsNext ==
    \/ InvokeTrain
    \/ InvokeValidate
    \/ InvokeTest
    \/ ForEpoch
    \/ TrainOneBatch
    \/ EndEpoch
    \/ Validate
    \/ ValidateOneBatch
    \/ EndValidate
    \/ AfterValidate
    \/ EndTrain
    \/ TestOneBatch
    \/ EndTest
    \/ Return

InvocationsSpec == Init /\ [][InvocationsNext]_vars

\* ---------------------------------------------------------- sampler claims

Constructed == kind \in {"Random", "Fixed", "Fair"}

\* w names exactly window_size strictly consecutive indices of the store
WindowInStore(w) ==
    /\ Len(w) = window_size
    /\ \A k \in 1..(Len(w) - 1) : w[k + 1] = w[k] + 1
    /\ \A k \in 1..Len(w) : w[k] \in 0..(dataset_len - 1)

\* C1: for every sampler variant, every store length N and window_size with
\* 1 <= window_size <= N, every window emitted in a pass is a list of exactly
\* window_size strictly consecutive indices, all in [0, N-1] (Fixed: for every
\* anchor list of record indices in [0, N-1]; Fair: for every label column).
C1_EveryWindowInStore ==
    (Constructed /\ 1 <= window_size /\ window_size <= dataset_len /\ passes >= 1)
        => \A i \in 1..Len(windows) : WindowInStore(windows[i])

\* The part of C1 the code keeps: the Random and the Fair sampler emit only
\* windows that lie in the store.
C1_RandomAndFairWindowsInStore ==
    (kind \in {"Random", "Fair"} /\ 1 <= window_size /\ window_size <= dataset_len
        /\ passes >= 1)
        => \A i \in 1..Len(windows) : WindowInStore(windows[i])

IsMalicious(i) == labels[i] # benign_label

\* the anchors of the emitted windows, in emission order
EmittedAnchors == [i \in 1..Len(windows) |-> Anchor(windows[i])]

\* the windows alternate malicious-anchored, benign-anchored, ... and come in pairs
Interleaved ==
    /\ Len(windows) % 2 = 0
    /\ \A i \in 1..Len(windows) :
          IF i % 2 = 1 THEN IsMalicious(EmittedAnchors[i])
                       ELSE ~IsMalicious(EmittedAnchors[i])

CountMalicious == Cardinality({i \in 1..Len(windows) : IsMalicious(EmittedAnchors[i])})

CountBenign == Cardinality({i \in 1..Len(windows) : ~IsMalicious(EmittedAnchors[i])})

\* the records of either class that can anchor a window: those at index >= window_size
MaliciousAnchors == {i \in 0..(dataset_len - 1) : i >= window_size /\ IsMalicious(i)}

BenignAnchors == {i \in 0..(dataset_len - 1) : i >= window_size /\ ~IsMalicious(i)}

\* C2: Fair sampler, even window_size: in every pass the number of windows is
\* length() = 2*min(|malicious|,|legit|), half of them malicious-anchored and
\* half benign-anchored, strictly alternating malicious, benign, ..., and no
\* anchor is emitted twice in the pass.
C2_FairPassBalanced ==
    (kind = "Fair" /\ passes >= 1) =>
        /\ Len(windows) = num_samples
        /\ num_samples = 2 * Min(Cardinality(MaliciousAnchors), Cardinality(BenignAnchors))
        /\ 2 * CountMalicious = Len(windows)
        /\ 2 * CountBenign = Len(windows)
        /\ Interleaved
        /\ \A i, j \in 1..Len(windows) :
              i # j => EmittedAnchors[i] # EmittedAnchors[j]

\* a second pass of a Fair sampler that emits at least two pairs
C2_Witness == kind = "Fair" /\ passes = 2 /\ Len(windows) >= 4

\* the end-to-end scenario has been set up and a pass has run
InScenario ==
    /\ kind = "Fair"
    /\ dataset_len = 10
    /\ window_size = 4
    /\ labels \in ScenarioLabels
    /\ benign_label = 0
    /\ passes >= 1

\* C3 as stated: in the scenario a pass yields exactly 8 windows, 4
\* malicious-anchored and 4 benign-anchored, interleaved.
C3_ScenarioEightWindows ==
    InScenario =>
        /\ Len(windows) = 8
        /\ CountMalicious = 4
        /\ CountBenign = 4
        /\ Interleaved

\* C3 as amended: in the scenario only the records at indices >= 4 anchor a
\* window, so a pass yields 6 windows (3 + 3) when record 3 is malicious and
\* 4 windows (2 + 2) when it is benign, interleaved.
C3_ScenarioWindows ==
    InScenario =>
        /\ Len(windows) = (IF labels[3] = 1 THEN 6 ELSE 4)
        /\ 2 * CountMalicious = Len(windows)
        /\ 2 * CountBenign = Len(windows)
        /\ Interleaved

C3_Witness == InScenario /\ labels[3] = 1 /\ Len(windows) = 6

\* C4: Random sampler with 1 <= window_size <= N: every pass yields exactly
\* N - window_size + 1 windows, which is length(); every anchor lies in
\* [window_size-1, N-1] and its window is [anchor-window_size+1 .. anchor];
\* N = 10 and window_size = 4 give 7 windows per pass.
C4_RandomPass ==
    (kind = "Random" /\ 1 <= window_size /\ window_size <= dataset_len /\ passes >= 1)
        =>
        /\ Len(windows) = dataset_len - window_size + 1
        /\ Len(windows) = num_samples
        /\ \A i \in 1..Len(windows) :
              /\ Len(windows[i]) = window_size
              /\ Anchor(windows[i]) \in (window_size - 1)..(dataset_len - 1)
              /\ \A k \in 1..window_size :
                    windows[i][k] = Anchor(windows[i]) - window_size + k
        /\ (dataset_len = 10 /\ window_size = 4) => Len(windows) = 7

\* a pass of the Random sampler over the store of 10 records, window_size = 4
C4_Witness ==
    kind = "Random" /\ dataset_len = 10 /\ window_size = 4 /\ passes >= 1
        /\ Len(windows) = 7

\* ---------------------------------------------------- EarlyStopping claims

LastCall == es_calls[Len(es_calls)]

\* the losses handed to the policy so far are positive and strictly decreasing
StrictlyImproving ==
    /\ \A k \in 1..Len(es_calls) : RatLess(Rat(0, 1), es_calls[k].val_loss)
    /\ \A k \in 1..(Len(es_calls) - 1) :
          RatLess(es_calls[k + 1].val_loss, es_calls[k].val_loss)

\* the losses handed to the policy so far are all the same
ConstantLoss ==
    \A k \in 1..Len(es_calls) : RatEq(es_calls[k].val_loss, es_calls[1].val_loss)

\* stop is not signalled and best_score is the score of the most recent call
TracksLastCall ==
    /\ ~ES.early_stop
    /\ ES.best_score # None
    /\ RatEq(ES.best_score[1], RatNeg(LastCall.val_loss))

\* C8 as stated: for every patience >= 1 and every delta >= 0, on a strictly
\* decreasing positive validation-loss sequence stop is never signalled and
\* after every call best_score is the score (-val_loss) of the most recent call.
C8_ImprovingNeverStopsAnyDelta ==
    (early_stopping # None /\ Len(es_calls) >= 1 /\ ES.patience >= 1
        /\ StrictlyImproving)
        => TracksLastCall

\* C8 as amended: the same with delta = 0.
C8_ImprovingNeverStops ==
    (early_stopping # None /\ Len(es_calls) >= 1 /\ ES.patience >= 1
        /\ RatEq(ES.delta, Rat(0, 1)) /\ StrictlyImproving)
        => TracksLastCall

\* three calls with strictly decreasing losses under patience 1 and delta 0
C8_Witness ==
    /\ early_stopping # None
    /\ ES.patience = 1
    /\ RatEq(ES.delta, Rat(0, 1))
    /\ Len(es_calls) = 3
    /\ StrictlyImproving

\* C9 as stated: with patience = 2 and a constant validation-loss sequence,
\* for every delta including 0, stop is first signalled exactly on the 3rd
\* call of the sequence: not before it, and it is signalled from then on.
C9_ConstantStopsOnThirdAnyDelta ==
    (early_stopping # None /\ Len(es_calls) >= 1 /\ ES.patience = 2 /\ ConstantLoss)
        => (ES.early_stop <=> Len(es_calls) >= 3)

\* C9 as amended: with patience = 2 and a constant positive loss, for delta > 0
\* stop is first signalled exactly on the 3rd call (the 2nd non-improving
\* one); for delta = 0 every call counts as an improvement and stop is never
\* signalled.
C9_ConstantStopsOnThird ==
    (early_stopping # None /\ Len(es_calls) >= 1 /\ ES.patience = 2 /\ ConstantLoss
        /\ RatLess(Rat(0, 1), es_calls[1].val_loss))
        => IF RatLess(Rat(0, 1), ES.delta)
           THEN /\ ES.early_stop <=> Len(es_calls) >= 3
                /\ ES.counter = Len(es_calls) - 1
           ELSE /\ ~ES.early_stop
                /\ ES.counter = 0

\* the 3rd call of a constant positive sequence, patience 2, delta > 0: stop
C9_Witness ==
    /\ early_stopping # None
    /\ ES.patience = 2
    /\ RatLess(Rat(0, 1), ES.delta)
    /\ Len(es_calls) = 3
    /\ ConstantLoss
    /\ RatLess(Rat(0, 1), es_calls[1].val_loss)
    /\ ES.early_stop

\* ----------------------------------------------------------- Trainer claims

RECURSIVE SumSeq(_)
SumSeq(q) == IF q = <<>> THEN 0 ELSE q[1] + SumSeq(Tail(q))

CountEvents(e) == Cardinality({i \in 1..Len(events) : events[i] = e})

\* train was called with epoch_steps
StepsGiven == pc # "idle" /\ args.epoch_steps # None

\* epoch number k (1-based) of the running call has trained all its batches
EpochOver(k) == k < Len(trained) \/ pc # "batches"

\* C6: train with epoch_steps given: if epoch_steps <= the number of batches
\* of the loader, every epoch trains exactly epoch_steps batches; if it is
\* larger, train raises a configuration error (ValueError, in the first epoch
\* it starts) and no batch has been trained when it is raised. (A call with
\* n_epoch = 0 starts no epoch; it trains nothing and never returns either.)
C6_EpochSteps ==
    StepsGiven =>
        IF args.epoch_steps[1] <= args.train_len
        THEN /\ exception # "ValueError"
             /\ \A k \in 1..Len(trained) :
                   /\ trained[k] <= args.epoch_steps[1]
                   /\ EpochOver(k) => trained[k] = args.epoch_steps[1]
        ELSE /\ weights = 0
             /\ SumSeq(trained) = 0
             /\ CountEvents("before_batch") = 0
             /\ pc # "returned"
             /\ Len(trained) >= 1 => (pc = "raised" /\ exception = "ValueError")
             /\ (pc = "raised" /\ args.n_epoch >= 1) => exception = "ValueError"

\* three epochs of one batch each out of a loader of two, and the return
C6_Witness ==
    /\ StepsGiven
    /\ args.epoch_steps = Some(1)
    /\ args.train_len = 2
    /\ trained = <<1, 1, 1>>
    /\ pc = "returned"

\* the error case of C6: epoch_steps above the loader's length raised ValueError
C6_WitnessError ==
    /\ StepsGiven
    /\ args.epoch_steps[1] > args.train_len
    /\ pc = "raised"
    /\ exception = "ValueError"

\* early stopping has signalled stop in the running train call
Stopped == pc # "idle" /\ early_stopping # None /\ ES.early_stop

LastValidation == validations[Len(validations)]

\* the validation that set the current best score: ES.counter calls before the last
BestValidation == validations[Len(validations) - ES.counter]

\* C7: when early stopping signals stop after a validation inside train, no
\* further training batch or epoch is run, the model's weights when train
\* returns are the weights checkpointed at the validation that set the
\* current best score, after_train still fires, and the value returned is the
\* sum of the per-epoch losses divided by the number of epochs actually run.
C7_EarlyStop ==
    Stopped =>
        /\ pc \in {"after_loop", "returned"}
        /\ exception = "none"
        /\ epoch # None
        /\ ES.counter >= 1
        /\ ES.counter < Len(validations)
        /\ Len(trained) = LastValidation.epoch
        /\ SumSeq(trained) = LastValidation.weights
        /\ CountEvents("before_epoch") = LastValidation.epoch
        /\ CountEvents("before_batch") = LastValidation.weights
        /\ checkpoint = Some(BestValidation.weights)
        /\ weights = BestValidation.weights
        /\ pc = "returned" =>
              /\ events[Len(events)] = "after_train"
              /\ CountEvents("after_train") = 1
              /\ result # None
              /\ RatEq(result[1], RatDivInt(epoch_losses_sum, Len(trained)))

\* train returned after an early stop that cut the run short and rolled the
\* model back to older weights
C7_Witness ==
    /\ Stopped
    /\ pc = "returned"
    /\ Len(trained) < args.n_epoch
    /\ weights < LastValidation.weights

\* train was called with a non-empty valid_loader and a nonzero epochs_until_validation
ValidationGiven ==
    /\ pc # "idle"
    /\ TruthyLoader(args.valid_len)
    /\ TruthyInt(args.epochs_until_validation)

\* a validation was started after the k-th completed epoch
ValidatedAfter(k) == \E i \in 1..Len(validations) : validations[i].epoch = k

\* the epochs completed after which train has gone on, into validate or past it
EpochsDecided ==
    IF pc = "validate" THEN CountEvents("after_epoch") - 1
                       ELSE CountEvents("after_epoch")

\* C10 as stated: with valid_loader and epochs_until_validation given,
\* validation runs after an epoch if and only if the number of completed
\* epochs is a multiple of epochs_until_validation.
C10_ValidationOnlyOnMultiples ==
    ValidationGiven =>
        \A k \in 1..EpochsDecided :
            ValidatedAfter(k) <=> (k % args.epochs_until_validation[1] = 0)

\* when validation is due after the k-th completed epoch, as amended
DueAfter(k) ==
    \/ k % args.epochs_until_validation[1] = 0
    \/ k = args.n_epoch

\* the early-stopping state and its checkpoint change only when train starts
\* and right after a validation that was due
EarlyStoppingTouchedOnlyAfterValidation ==
    (early_stopping' # early_stopping \/ checkpoint' # checkpoint) =>
        \/ pc = "idle"
        \/ /\ pc = "validated"
           /\ ValidationGiven
           /\ DueAfter(CountEvents("after_epoch"))
           /\ LastValidation.epoch = CountEvents("after_epoch")

ValidationSchedule ==
    /\ ValidationGiven =>
          \A k \in 1..EpochsDecided : ValidatedAfter(k) <=> DueAfter(k)
    /\ (pc # "idle" /\ ~ValidationGiven) => validations = <<>>

\* C10 as amended: with a non-empty valid_loader and a nonzero
\* epochs_until_validation, validation runs after an epoch if and only if the
\* number of completed epochs is a multiple of epochs_until_validation or the
\* epoch is the last of the n_epoch epochs; after every other epoch no
\* validation runs and the early-stopping state is not touched.
C10_ValidationSchedule ==
    /\ []ValidationSchedule
    /\ [][EarlyStoppingTouchedOnlyAfterValidation]_vars

\* a validation after the final epoch 3 of 3 with epochs_until_validation = 2,
\* following the one after epoch 2
C10_Witness ==
    /\ ValidationGiven
    /\ args.n_epoch = 3
    /\ args.epochs_until_validation = Some(2)
    /\ Len(validations) = 2
    /\ validations[1].epoch = 2
    /\ validations[2].epoch = 3
    /\ pc = "returned"

\* C5: with window_size > N the Random sampler fails with a configuration
\* error at construction or when a pass starts; it never completes a pass
\* that silently yields zero windows.
C5_RandomFailsFast ==
    (kind = "Random" /\ window_size > dataset_len)
        => ~(passes >= 1 /\ raised = "none" /\ windows = <<>>)

\* train was called with validation switched on, and patience or delta omitted
PolicyOmitted ==
    /\ ValidationGiven
    /\ call = "train"
    /\ (args.patience = None \/ args.delta = None)

\* C11: when train is called with valid_loader and epochs_until_validation
\* supplied but patience and/or delta omitted, validation still runs on its
\* schedule and train completes normally: it does not fail after a validation.
C11_TrainWithoutPolicyCompletes ==
    PolicyOmitted =>
        ~(pc = "raised" /\ exception = "UnboundLocalError" /\ Len(validations) >= 1)

\* What the code does in the case of C11: the first validation that is due
\* runs to its end, and train then fails with UnboundLocalError; no such call
\* that reaches a validation returns.
C11_TrainWithoutPolicyFails ==
    (PolicyOmitted /\ Len(validations) >= 1) =>
        /\ Len(validations) = 1
        /\ pc \in {"validating", "validated", "raised"}
        /\ pc = "raised" =>
              /\ exception = "UnboundLocalError"
              /\ events[Len(events)] = "after_validation"
              /\ result = None

\* the failure of C11 has happened
C11_WitnessFailure ==
    /\ PolicyOmitted
    /\ pc = "raised"
    /\ exception = "UnboundLocalError"
    /\ Len(validations) = 1

\* the state the recogniser of the hook trace is in after the event e
HookStep(q, e) ==
    CASE q = "idle" /\ e = "before_train" -> "loop"
      [] q = "loop" /\ e = "before_epoch" -> "epoch"
      [] q = "epoch" /\ e = "before_batch" -> "batch"
      [] q = "batch" /\ e = "after_batch" -> "epoch"
      [] q = "epoch" /\ e = "after_epoch" -> "epoch_done"
      [] q = "epoch_done" /\ e = "before_epoch" -> "epoch"
      [] q = "epoch_done" /\ e = "before_validation" -> "validation"
      [] q = "validation" /\ e = "after_validation" -> "loop"
      [] q = "loop" /\ e = "after_train" -> "done"
      [] q = "epoch_done" /\ e = "after_train" -> "done"
      [] OTHER -> "bad"

\* the state of the recogniser after the events trace[i], trace[i + 1], ...
RECURSIVE HookRun(_, _, _)
HookRun(trace, q, i) ==
    IF i > Len(trace) THEN q ELSE HookRun(trace, HookStep(q, trace[i]), i + 1)

\* the epoch (1-based) the i-th event of the trace belongs to
EpochOfEvent(i) == Cardinality({j \in 1..i : events[j] = "before_epoch"})

\* the (before_batch, after_batch) pairs fired inside epoch k
BatchPairsOfEpoch(k) ==
    Cardinality({i \in 1..Len(events) : events[i] = "after_batch" /\ EpochOfEvent(i) = k})

\* C12: in every call of train that returns normally the fired hook events
\* form the well-bracketed trace before_train, then per epoch before_epoch,
\* one (before_batch, after_batch) pair per trained batch, after_epoch,
\* optionally (before_validation, after_validation), and finally after_train
\* exactly once as the last event; every before_X has its after_X.
C12_HookTrace ==
    (call = "train" /\ pc = "returned") =>
        /\ HookRun(events, "idle", 1) = "done"
        /\ Len(events) >= 2
        /\ CountEvents("before_train") = 1
        /\ CountEvents("after_train") = 1
        /\ CountEvents("before_epoch") = Len(trained)
        /\ CountEvents("after_epoch") = Len(trained)
        /\ CountEvents("before_validation") = Len(validations)
        /\ CountEvents("after_validation") = Len(validations)
        /\ \A k \in 1..Len(trained) : BatchPairsOfEpoch(k) = trained[k]
        /\ \A k \in 1..Len(validations) :
              \E i \in 1..(Len(events) - 1) :
                 /\ events[i] = "before_validation"
                 /\ events[i + 1] = "after_validation"
                 /\ EpochOfEvent(i) = validations[k].epoch

\* a returned call of two batches per epoch with a validation between two epochs
C12_Witness ==
    /\ call = "train"
    /\ pc = "returned"
    /\ Len(trained) >= 2
    /\ trained[1] = 2
    /\ Len(validations) >= 1
    /\ validations[1].epoch = 1

\* the calls of the metric so far are step, once per batch 0, 1, ..., n - 1 in
\* this order, all made after before_test and before any other event
StepsInLoaderOrder(n) ==
    /\ Len(metric_calls) >= n
    /\ \A i \in 1..n :
          /\ metric_calls[i].op = "step"
          /\ metric_calls[i].batch = i - 1
          /\ metric_calls[i].at = 1

\* C13: Trainer.test without a metric raises a configuration error before
\* any batch is evaluated and before any hook fires; with a metric it calls
\* metric.step once per batch of the loader, in loader order, then
\* metric.apply exactly once, after the last step (also for a loader of zero
\* batches), between the before_test and the after_test event.
C13_Test ==
    call = "test" =>
        IF ~targs.metric
        THEN /\ pc = "raised"
             /\ exception = "ValueError"
             /\ events = <<>>
             /\ metric_calls = <<>>
             /\ tstep = 0
        ELSE /\ pc \in {"testing", "returned"}
             /\ exception = "none"
             /\ pc = "testing" =>
                   /\ events = <<"before_test">>
                   /\ tstep <= targs.test_len
                   /\ Len(metric_calls) = tstep
                   /\ StepsInLoaderOrder(tstep)
             /\ pc = "returned" =>
                   /\ events = <<"before_test", "after_test">>
                   /\ Len(metric_calls) = targs.test_len + 1
                   /\ StepsInLoaderOrder(targs.test_len)
                   /\ metric_calls[targs.test_len + 1].op = "apply"
                   /\ metric_calls[targs.test_len + 1].at = 1

\* a test over the longest loader has returned
C13_Witness ==
    /\ call = "test"
    /\ targs.metric
    /\ targs.test_len = MaxTest
    /\ pc = "returned"
    /\ Len(metric_calls) = MaxTest + 1

\* a test over a loader of zero batches has returned, with apply called
C13_WitnessEmptyLoader ==
    /\ call = "test"
    /\ targs.metric
    /\ targs.test_len = 0
    /\ pc = "returned"
    /\ Len(metric_calls) = 1

\* a test without a metric has raised, after a train invocation
C13_WitnessNoMetric ==
    /\ call = "test"
    /\ ~targs.metric
    /\ pc = "raised"
    /\ invocations >= 1
    /\ weights >= 1

\* a training batch runs in this step
TrainingBatchStep == weights' = weights + 1 /\ step' = step + 1

\* a validation batch runs in this step
ValidationBatchStep == vstep' = vstep + 1

\* a test batch runs in this step
TestBatchStep == tstep' = tstep + 1

\* every batch runs in the mode its kind asks for
BatchInItsMode ==
    /\ TrainingBatchStep => mode = "train"
    /\ (ValidationBatchStep \/ TestBatchStep) => mode = "eval"

\* C18: in any sequence of train, validate and test invocations on one
\* Trainer, every training batch runs with the model in train mode and every
\* validation or test batch with the model in evaluation mode; after a
\* validation inside train that does not signal stop, the batches of the next
\* epoch run in train mode.
C18_BatchModes ==
    /\ [][BatchInItsMode]_vars
    /\ [](pc = "batches" => mode = "train")
    /\ [](pc \in {"validating", "testing"} => mode = "eval")

\* in the second invocation, a train after one that left the model in
\* evaluation mode: a batch of the epoch after a validation has been trained
C18_Witness ==
    /\ invocations >= 1
    /\ call = "train"
    /\ pc = "batches"
    /\ Len(validations) = 1
    /\ Len(trained) = 2
    /\ trained[2] = 1
    /\ mode = "train"

\* how often the value v occurs in the list q
Occurrences(q, v) == Cardinality({i \in 1..Len(q) : q[i] = v})

\* the two lists hold the same values with the same multiplicities
SameMultiset(q, r) ==
    /\ Len(q) = Len(r)
    /\ \A i \in 1..Len(q) : Occurrences(q, q[i]) = Occurrences(r, q[i])

FixedPassEmitsSuppliedAnchors ==
    (kind = "Fixed" /\ passes >= 1) =>
        /\ Len(windows) = num_samples
        /\ num_samples = Len(indices)
        /\ SameMultiset(EmittedAnchors, indices)

\* C14: Fixed sampler: in every pass the multiset of emitted anchors equals
\* the multiset of the supplied anchor list (duplicates kept with their
\* multiplicity), the number of windows equals length() = the supplied anchor
\* count, and the supplied list itself is unchanged after any number of passes.
C14_FixedPass ==
    /\ []FixedPassEmitsSuppliedAnchors
    /\ [][kind = "Fixed" => indices' = indices]_vars

\* a second pass that emits two different supplied anchors in the other order
C14_Witness ==
    /\ kind = "Fixed"
    /\ passes = 2
    /\ Len(indices) = 2
    /\ indices[1] # indices[2]
    /\ EmittedAnchors = <<indices[2], indices[1]>>

\* a pass over a supplied list that names the same anchor twice
C14_WitnessDuplicate ==
    /\ kind = "Fixed"
    /\ passes >= 1
    /\ Len(indices) = 2
    /\ indices[1] = indices[2]
    /\ Len(windows) = 2

\* the store has returned an item for a window
ItemReturned == item.idx # <<>> /\ item.error = "none"

\* the record the k-th index of the window handed to the store names
RecordOf(k) == RowIndex(item.idx[k], store.len)

\* the returned features cover all records of the window, in window order
FeaturesInWindowOrder ==
    /\ Len(item.features) = Len(item.idx)
    /\ \A k \in 1..Len(item.idx) :
          item.features[k] = store.numeric_data[RecordOf(k) + 1]
                               \o store.categorical_data[RecordOf(k) + 1]

\* the returned target is the label of the last record of the window, alone
TargetIsAnchorLabel ==
    item.label = store.labels[RecordOf(Len(item.idx)) + 1]

\* C15: for every window of indices handed to the record store, the
\* supervision target returned is the label of the window's last (anchor)
\* record only, whatever the labels of the other records are; the returned
\* features cover all window_size records in window order.
C15_TargetIsAnchorLabel ==
    ItemReturned => (TargetIsAnchorLabel /\ FeaturesInWindowOrder)

\* What the code keeps of C15: the features always cover the window in order,
\* and the target is the anchor's label when the labels tensor has one axis
\* (labels handed over as a pd.Series); with the two axes of a one-column
\* pd.DataFrame the target holds the labels of all records of the window.
C15_TargetBySeriesOrFrame ==
    ItemReturned =>
        /\ FeaturesInWindowOrder
        /\ store.label_dims = 1 => TargetIsAnchorLabel
        /\ store.label_dims = 2 =>
              /\ Len(item.label) = Len(item.idx)
              /\ \A k \in 1..Len(item.idx) :
                    <<item.label[k]>> = store.labels[RecordOf(k) + 1]

\* a window of two records with different labels was handed to a store whose
\* labels came as a DataFrame: the target holds both labels
C15_WitnessFrame ==
    /\ ItemReturned
    /\ store.label_dims = 2
    /\ Len(item.idx) = 2
    /\ item.label = <<1, 0>>

\* the most recent call that set best_score: counter calls before the last one
BestCall == es_calls[Len(es_calls) - ES.counter]

\* the single checkpoint holds the weights of the model at the most recent
\* call that set best_score, and val_loss_min = -best_score
CheckpointIsMostRecentBest ==
    (early_stopping # None /\ Len(es_calls) >= 1) =>
        /\ ES.best_score # None
        /\ ES.val_loss_min # None
        /\ RatEq(ES.val_loss_min[1], RatNeg(ES.best_score[1]))
        /\ ES.counter < Len(es_calls)
        /\ RatEq(ES.best_score[1], RatNeg(BestCall.val_loss))
        /\ checkpoint = Some(BestCall.weights)

\* a loss that did not improve on the best loss by the relative fraction delta:
\* -val_loss < -best_loss + best_loss * delta
LossNotImproved(best_loss, val_loss, delta) ==
    RatLess(RatMul(best_loss, RatSub(Rat(1, 1), delta)), val_loss)

\* a call after the first: a non-improving one writes no checkpoint and leaves
\* best_score and the checkpoint as they are; an improving one updates
\* best_score, overwrites the checkpoint and resets the counter
CallKeepsOrReplacesBest ==
    (early_stopping # None /\ Len(es_calls) >= 1 /\ Len(es_calls') = Len(es_calls) + 1) =>
        IF LossNotImproved(ES.val_loss_min[1], es_calls'[Len(es_calls')].val_loss, ES.delta)
        THEN /\ checkpoint' = checkpoint
             /\ early_stopping'[1].best_score = ES.best_score
             /\ early_stopping'[1].val_loss_min = ES.val_loss_min
             /\ early_stopping'[1].counter = ES.counter + 1
        ELSE /\ checkpoint' = Some(weights')
             /\ checkpoint' = Some(es_calls'[Len(es_calls')].weights)
             /\ RatEq(early_stopping'[1].best_score[1],
                      RatNeg(es_calls'[Len(es_calls')].val_loss))
             /\ early_stopping'[1].counter = 0

\* C16: after any sequence of EarlyStopping calls the single checkpoint holds
\* the weights the model had at the most recent call that set best_score, and
\* val_loss_min equals -best_score; a non-improving call writes no checkpoint
\* and leaves best_score and the checkpoint unchanged, an improving call
\* updates best_score, overwrites the checkpoint and resets the counter to 0.
C16_CheckpointTracksBest ==
    /\ []CheckpointIsMostRecentBest
    /\ [][CallKeepsOrReplacesBest]_vars

\* four calls: the second improved, the third and fourth did not, so the
\* checkpoint still holds the weights of the second call
C16_Witness ==
    /\ early_stopping # None
    /\ Len(es_calls) = 4
    /\ ES.counter = 2
    /\ RatLess(es_calls[2].val_loss, es_calls[1].val_loss)
    /\ checkpoint = Some(es_calls[2].weights)
    /\ weights > es_calls[2].weights

\* the anchors pass k of this sampler emits when nothing else draws from or
\* seeds the generator: a function of the store length, window_size and k
ReferenceAnchors(k) ==
    SeededDraws((k - 1) * num_samples, dataset_len, window_size, num_samples)

\* C17: the anchors a Random sampler emits in its passes depend only on its
\* own store length, window_size and pass number: constructing another
\* sampler (Random or Fair), or running a pass of another sampler, between
\* this sampler's construction and its pass does not change them.
C17_AnchorsIndependentOfOtherSamplers ==
    (kind = "Random" /\ passes >= 1) => EmittedAnchors = ReferenceAnchors(passes)

\* What the code keeps of C17: the passes of a sampler that no other sampler
\* has interfered with since its construction emit the reference anchors.
C17_AnchorsWhenAlone ==
    (kind = "Random" /\ passes >= 1 /\ ~other.interfered)
        => EmittedAnchors = ReferenceAnchors(passes)

\* a pass that emits other anchors than the reference, after another sampler
\* was constructed or has run a pass
C17_WitnessInterference ==
    /\ kind = "Random"
    /\ passes >= 1
    /\ other.interfered
    /\ EmittedAnchors # ReferenceAnchors(passes)

====
